---- MODULE Spec2Model ----
(***************************************************************************)
(* Model of the App component of Frontend/webpage/src/App.js: the ten     *)
(* useState cells, the two startup fetches, the handlePredict and          *)
(* handleRecommend handlers (their synchronous part up to the fetch, and   *)
(* their continuation after the awaits), and the onClick / onChange        *)
(* callbacks of the rendered controls.                                     *)
(*                                                                         *)
(* Representation of JavaScript values:                                    *)
(*  - a nullable value (null, undefined, NaN) is a sequence of length at   *)
(*    most one: << >> is the absent value, <<v>> is the value v;           *)
(*  - a DOM value string (select / input value) is a sequence of           *)
(*    one-character strings, so that String(n) and parseInt are computed;  *)
(*  - a message string is a TLA+ string; + is \o;                          *)
(*  - predictedRating is kept in tenths (42 is 4.2).                       *)
(***************************************************************************)
EXTENDS Integers, Sequences, FiniteSets

VARIABLES
    activeTab,        \* 'predict' | 'recommend'
    users,            \* sequence of user ids
    movies,           \* sequence of [movieId, title]
    selectedUser,     \* DOM string, << >> is ''
    selectedMovie,    \* DOM string, << >> is ''
    prediction,       \* nullable response object
    recommendations,  \* sequence of recommendation items
    topN,             \* nullable number (<< >> is NaN)
    loading,          \* BOOLEAN
    error,            \* nullable message string
    network,          \* sequence of the /predict and /recommend calls in flight
    usersFetch,       \* the GET /users call of the mount effect
    moviesFetch,      \* the GET /movies call of the mount effect
    lastEvent         \* history: the callback that ran in the last step

vars == <<activeTab, users, movies, selectedUser, selectedMovie, prediction,
          recommendations, topN, loading, error, network, usersFetch,
          moviesFetch, lastEvent>>

----------------------------------------------------------------------------
(* Bounds of the model *)

\* how many /predict and /recommend calls the model lets be in flight at once
MaxInFlight == 2

\* the largest user id the backend's /users list holds
MaxUserId == 2

\* the largest predictedRating, in tenths, of the ratings the rendering of a
\* prediction is checked for
MaxRatingTenths == 50

----------------------------------------------------------------------------
(* JavaScript values *)

Null == << >>

Some(v) == <<v>>

\* JavaScript truthiness of a nullable string: undefined, null and '' are falsy
Truthy(s) == s # Null /\ s[1] # ""

Digits == <<"0", "1", "2", "3", "4", "5", "6", "7", "8", "9">>

IsDigit(c) == \E d \in 1..10 : Digits[d] = c

DigitVal(c) == (CHOOSE d \in 1..10 : Digits[d] = c) - 1

\* String(n) of a non-negative integer: the value attribute of an <option>
RECURSIVE StringOf(_)
StringOf(n) ==
    IF n < 10 THEN <<Digits[n + 1]>>
    ELSE StringOf(n \div 10) \o <<Digits[(n % 10) + 1]>>

\* the value of the longest prefix of decimal digits of s, read after acc
RECURSIVE ParseDigits(_, _)
ParseDigits(s, acc) ==
    IF s = << >> \/ ~IsDigit(Head(s)) THEN acc
    ELSE ParseDigits(Tail(s), 10 * acc + DigitVal(Head(s)))

\* parseInt(s): an optional sign, then the longest prefix of digits; NaN
\* when there is no digit
parseInt(s) ==
    LET neg  == s # << >> /\ Head(s) = "-"
        body == IF neg THEN Tail(s) ELSE s
    IN  IF body = << >> \/ ~IsDigit(Head(body)) THEN Null
        ELSE Some((IF neg THEN -1 ELSE 1) * ParseDigits(body, 0))

----------------------------------------------------------------------------
(* JSON bodies of the backend and the state of a fetch call *)

\* a response body of POST /predict or POST /recommend, as parsed by
\* response.json(); a field the body lacks is absent (undefined)
Obj(e, u, r, recs) ==
    [error |-> e, userId |-> u, predictedRating |-> r, recommendations |-> recs]

EmptyObj == Obj(Null, Null, Null, Null)

ErrorObj(m) == Obj(Some(m), Null, Null, Null)

PredictionResult(u, r) == Obj(Null, u, Some(r), Null)

RecommendationList == <<[movieId |-> 10, predictedRating |-> 45],
                        [movieId |-> 3, predictedRating |-> 38]>>

RecommendResult == Obj(Null, Null, Null, Some(RecommendationList))

ServerErrors == {"user not found", ""}

\* a fetch call: not answered yet, rejected (network failure), or resolved
\* with an HTTP status and a body that parses as JSON (data) or does not
Pending == [status |-> "pending", ok |-> FALSE, parsed |-> FALSE, data |-> Null]

Rejected == [status |-> "rejected", ok |-> FALSE, parsed |-> FALSE, data |-> Null]

Resolved(ok, parsed, data) ==
    [status |-> "resolved", ok |-> ok, parsed |-> parsed, data |-> data]

\* the JSON values a body can parse to: an object is <<obj>>, JSON null is Null
SuccessData(req) ==
    IF req.kind = "predict"
    THEN {Some(PredictionResult(req.userId, 42))}
    ELSE {Some(RecommendResult)}

FailureData == {Some(ErrorObj(m)) : m \in ServerErrors}

Answers(req) ==
    {Rejected}
    \cup {Resolved(ok, FALSE, Null) : ok \in BOOLEAN}
    \cup {Resolved(ok, TRUE, Null) : ok \in BOOLEAN}
    \cup {Resolved(ok, TRUE, Some(EmptyObj)) : ok \in BOOLEAN}
    \cup {Resolved(TRUE, TRUE, d) : d \in SuccessData(req)}
    \cup {Resolved(FALSE, TRUE, d) : d \in FailureData}

\* err.message of the exception the continuation catches
FetchFailed == "Failed to fetch"

JsonSyntaxError == "Unexpected token < in JSON at position 0"

NullTypeError == "Cannot read properties of null"

UserList == [i \in 1..MaxUserId |-> i]

MovieList == <<[movieId |-> 10, title |-> "Heat"], [movieId |-> 3, title |-> "Alien"]>>

UsersAnswers ==
    {Rejected, Resolved(TRUE, FALSE, Null), Resolved(TRUE, TRUE, Null),
     Resolved(TRUE, TRUE, Some([userIds |-> Some(UserList)])),
     Resolved(FALSE, TRUE, Some([userIds |-> Null]))}

MoviesAnswers ==
    {Rejected, Resolved(TRUE, FALSE, Null), Resolved(TRUE, TRUE, Null),
     Resolved(TRUE, TRUE, Some([movies |-> Some(MovieList)])),
     Resolved(FALSE, TRUE, Some([movies |-> Null]))}

\* the continuation of the call has run to its end through its catch block,
\* which wrote the exception to console.error
Logged == [status |-> "logged", ok |-> FALSE, parsed |-> FALSE, data |-> Null]

\* the continuation of the call has run to its end without an exception
Done == [status |-> "done", ok |-> FALSE, parsed |-> FALSE, data |-> Null]

----------------------------------------------------------------------------
(* Initial state: the useState initial values, after the mount effect has *)
(* called fetchUsers() and fetchMovies()                                  *)

Init ==
    /\ activeTab = "predict"
    /\ users = << >>
    /\ movies = << >>
    /\ selectedUser = << >>
    /\ selectedMovie = << >>
    /\ prediction = Null
    /\ recommendations = << >>
    /\ topN = Some(10)
    /\ loading = FALSE
    /\ error = Null
    /\ network = << >>
    /\ usersFetch = Pending
    /\ moviesFetch = Pending
    /\ lastEvent = "useEffect"

----------------------------------------------------------------------------
(* The backend and the network *)

\* the backend answers GET /users, or the call fails
UsersAnswer ==
    /\ usersFetch.status = "pending"
    /\ \E a \in UsersAnswers : usersFetch' = a
    /\ lastEvent' = "network"
    /\ UNCHANGED <<activeTab, users, movies, selectedUser, selectedMovie,
                   prediction, recommendations, topN, loading, error, network,
                   moviesFetch>>

\* the backend answers GET /movies, or the call fails
MoviesAnswer ==
    /\ moviesFetch.status = "pending"
    /\ \E a \in MoviesAnswers : moviesFetch' = a
    /\ lastEvent' = "network"
    /\ UNCHANGED <<activeTab, users, movies, selectedUser, selectedMovie,
                   prediction, recommendations, topN, loading, error, network,
                   usersFetch>>

\* the backend answers a /predict or /recommend call, or the call fails
Answer ==
    /\ \E i \in 1..Len(network) :
          /\ network[i].resp.status = "pending"
          /\ \E a \in Answers(network[i]) :
                network' = [network EXCEPT ![i].resp = a]
    /\ lastEvent' = "network"
    /\ UNCHANGED <<activeTab, users, movies, selectedUser, selectedMovie,
                   prediction, recommendations, topN, loading, error,
                   usersFetch, moviesFetch>>

----------------------------------------------------------------------------
(* The startup fetches *)

\* the try block of fetchUsers / fetchMovies throws: fetch rejects,
\* response.json() rejects, or data is null when its field is read
Throws(call) ==
    \/ call.status = "rejected"
    \/ call.status = "resolved" /\ ~call.parsed
    \/ call.status = "resolved" /\ call.parsed /\ call.data = Null

\* data.userIds || []
UserIdsOrEmpty(data) ==
    IF data.userIds # Null THEN data.userIds[1] ELSE << >>

\* data.movies || []
MoviesOrEmpty(data) ==
    IF data.movies # Null THEN data.movies[1] ELSE << >>

\* fetchUsers with a catch block that also calls setError
fetchUsersSurfacing ==
    /\ usersFetch.status \in {"rejected", "resolved"}
    /\ users' = IF Throws(usersFetch) THEN users
                ELSE UserIdsOrEmpty(usersFetch.data[1])
    /\ error' = IF Throws(usersFetch) THEN Some("Error fetching users") ELSE error
    /\ usersFetch' = IF Throws(usersFetch) THEN Logged ELSE Done
    /\ lastEvent' = "fetchUsers"
    /\ UNCHANGED <<activeTab, movies, selectedUser, selectedMovie, prediction,
                   recommendations, topN, loading, network, moviesFetch>>

\* fetchUsers, from the first await to its end
fetchUsers ==
    /\ usersFetch.status \in {"rejected", "resolved"}
    /\ users' = IF Throws(usersFetch) THEN users
                ELSE UserIdsOrEmpty(usersFetch.data[1])
    /\ usersFetch' = IF Throws(usersFetch) THEN Logged ELSE Done
    /\ lastEvent' = "fetchUsers"
    /\ UNCHANGED <<activeTab, movies, selectedUser, selectedMovie, prediction,
                   recommendations, topN, loading, error, network, moviesFetch>>

\* fetchMovies with a catch block that also calls setUsers([])
fetchMoviesResetsUsers ==
    /\ moviesFetch.status \in {"rejected", "resolved"}
    /\ movies' = IF Throws(moviesFetch) THEN movies
                 ELSE MoviesOrEmpty(moviesFetch.data[1])
    /\ users' = IF Throws(moviesFetch) THEN << >> ELSE users
    /\ moviesFetch' = IF Throws(moviesFetch) THEN Logged ELSE Done
    /\ lastEvent' = "fetchMovies"
    /\ UNCHANGED <<activeTab, selectedUser, selectedMovie, prediction,
                   recommendations, topN, loading, error, network, usersFetch>>

\* fetchMovies, from the first await to its end
fetchMovies ==
    /\ moviesFetch.status \in {"rejected", "resolved"}
    /\ movies' = IF Throws(moviesFetch) THEN movies
                 ELSE MoviesOrEmpty(moviesFetch.data[1])
    /\ moviesFetch' = IF Throws(moviesFetch) THEN Logged ELSE Done
    /\ lastEvent' = "fetchMovies"
    /\ UNCHANGED <<activeTab, users, selectedUser, selectedMovie, prediction,
                   recommendations, topN, loading, error, network, usersFetch>>

----------------------------------------------------------------------------
(* The rendered controls *)

UserOptionLimit == 100

MovieOptionLimit == 500

Min(a, b) == IF a < b THEN a ELSE b

\* <option>s valued by their array index instead of the user id
UserOptionsByIndex ==
    {<< >>} \cup {StringOf(i - 1) : i \in 1..Min(Len(users), UserOptionLimit)}

\* the values of the <option>s of the user <select>
UserOptions ==
    {<< >>} \cup {StringOf(users[i]) : i \in 1..Min(Len(users), UserOptionLimit)}

\* the values of the <option>s of the movie <select>
MovieOptions ==
    {<< >>} \cup {StringOf(movies[i].movieId) : i \in 1..Min(Len(movies), MovieOptionLimit)}

\* the values the number input can report: '' when its text is no number,
\* else the text; min and max are not applied to typed text
TopNInputs ==
    {<< >>, <<"5", "1">>, <<"1", ".", "5">>, <<"-", "3">>}

\* a Predict Rating button without the disabled attribute
PredictNeverDisabled == FALSE

\* disabled={loading} of the Predict Rating button
PredictDisabled == loading

\* a Get Recommendations button without the disabled attribute
RecommendNeverDisabled == FALSE

\* disabled={loading} of the Get Recommendations button
RecommendDisabled == loading

\* onClick of a tab button (a click on the active tab changes no state)
setActiveTab ==
    /\ \E t \in {"predict", "recommend"} : t # activeTab /\ activeTab' = t
    /\ lastEvent' = "setActiveTab"
    /\ UNCHANGED <<users, movies, selectedUser, selectedMovie, prediction,
                   recommendations, topN, loading, error, network, usersFetch,
                   moviesFetch>>

\* onChange of the user <select> (either tab renders one)
setSelectedUser ==
    /\ \E v \in UserOptions : v # selectedUser /\ selectedUser' = v
    /\ lastEvent' = "setSelectedUser"
    /\ UNCHANGED <<activeTab, users, movies, selectedMovie, prediction,
                   recommendations, topN, loading, error, network, usersFetch,
                   moviesFetch>>

\* onChange of the movie <select> of the predict tab
setSelectedMovie ==
    /\ activeTab = "predict"
    /\ \E v \in MovieOptions : v # selectedMovie /\ selectedMovie' = v
    /\ lastEvent' = "setSelectedMovie"
    /\ UNCHANGED <<activeTab, users, movies, selectedUser, prediction,
                   recommendations, topN, loading, error, network, usersFetch,
                   moviesFetch>>

\* onChange of the number input of the recommend tab
setTopN ==
    /\ activeTab = "recommend"
    /\ \E s \in TopNInputs : topN' = parseInt(s)
    /\ lastEvent' = "setTopN"
    /\ UNCHANGED <<activeTab, users, movies, selectedUser, selectedMovie,
                   prediction, recommendations, loading, error, network,
                   usersFetch, moviesFetch>>

----------------------------------------------------------------------------
(* handlePredict and handleRecommend *)

\* !selectedUser && !selectedMovie
PredictInvalidBoth == selectedUser = << >> /\ selectedMovie = << >>

\* !selectedUser || !selectedMovie
PredictInvalid == selectedUser = << >> \/ selectedMovie = << >>

\* !selectedMovie, the wrong field
RecommendInvalidMovie == selectedMovie = << >>

\* !selectedUser
RecommendInvalid == selectedUser = << >>

PredictValidationMessage == "Please select both user and movie"

RecommendValidationMessage == "Please select a user"

PredictFallback == "Prediction failed"

RecommendFallback == "Recommendation failed"

\* setError(err.message), the prefix left out
ConnectErrorBare(message) == message

\* 'Error connecting to server: ' + err.message
ConnectError(message) == "Error connecting to server: " \o message

\* fallback + ': ' + data.error, the message wrapped
ErrorOrWrapped(data, fallback) ==
    IF Truthy(data.error) THEN fallback \o ": " \o data.error[1] ELSE fallback

\* data.error || fallback
ErrorOr(data, fallback) ==
    IF Truthy(data.error) THEN data.error[1] ELSE fallback

\* the JSON body of the POST /predict call
PredictRequest ==
    [kind |-> "predict", userId |-> parseInt(selectedUser),
     movieId |-> parseInt(selectedMovie), topN |-> Null, resp |-> Pending]

\* the JSON body of the POST /recommend call (JSON.stringify writes NaN as null)
RecommendRequest ==
    [kind |-> "recommend", userId |-> parseInt(selectedUser),
     movieId |-> Null, topN |-> topN, resp |-> Pending]

\* handlePredict without its setError(null)
handlePredictKeepsError ==
    /\ activeTab = "predict"
    /\ ~PredictDisabled
    /\ IF PredictInvalid
       THEN /\ error' = Some(PredictValidationMessage)
            /\ UNCHANGED <<loading, prediction, network>>
       ELSE /\ Len(network) < MaxInFlight
            /\ loading' = TRUE
            /\ error' = error
            /\ prediction' = Null
            /\ network' = Append(network, PredictRequest)
    /\ lastEvent' = "handlePredict"
    /\ UNCHANGED <<activeTab, users, movies, selectedUser, selectedMovie,
                   recommendations, topN, usersFetch, moviesFetch>>

\* handlePredict with setPrediction(null) moved above the validation
handlePredictClearsFirst ==
    /\ activeTab = "predict"
    /\ ~PredictDisabled
    /\ prediction' = Null
    /\ IF PredictInvalid
       THEN /\ error' = Some(PredictValidationMessage)
            /\ UNCHANGED <<loading, network>>
       ELSE /\ Len(network) < MaxInFlight
            /\ loading' = TRUE
            /\ error' = Null
            /\ network' = Append(network, PredictRequest)
    /\ lastEvent' = "handlePredict"
    /\ UNCHANGED <<activeTab, users, movies, selectedUser, selectedMovie,
                   recommendations, topN, usersFetch, moviesFetch>>

\* handlePredict without its setPrediction(null)
handlePredictKeepsPrediction ==
    /\ activeTab = "predict"
    /\ ~PredictDisabled
    /\ IF PredictInvalid
       THEN /\ error' = Some(PredictValidationMessage)
            /\ UNCHANGED <<loading, network>>
       ELSE /\ Len(network) < MaxInFlight
            /\ loading' = TRUE
            /\ error' = Null
            /\ network' = Append(network, PredictRequest)
    /\ lastEvent' = "handlePredict"
    /\ UNCHANGED <<activeTab, users, movies, selectedUser, selectedMovie,
                   prediction, recommendations, topN, usersFetch, moviesFetch>>

\* handlePredict, from the click to the first await
handlePredict ==
    /\ activeTab = "predict"
    /\ ~PredictDisabled
    /\ IF PredictInvalid
       THEN /\ error' = Some(PredictValidationMessage)
            /\ UNCHANGED <<loading, prediction, network>>
       ELSE /\ Len(network) < MaxInFlight
            /\ loading' = TRUE
            /\ error' = Null
            /\ prediction' = Null
            /\ network' = Append(network, PredictRequest)
    /\ lastEvent' = "handlePredict"
    /\ UNCHANGED <<activeTab, users, movies, selectedUser, selectedMovie,
                   recommendations, topN, usersFetch, moviesFetch>>

\* handleRecommend without its setError(null)
handleRecommendKeepsError ==
    /\ activeTab = "recommend"
    /\ ~RecommendDisabled
    /\ IF RecommendInvalid
       THEN /\ error' = Some(RecommendValidationMessage)
            /\ UNCHANGED <<loading, recommendations, network>>
       ELSE /\ Len(network) < MaxInFlight
            /\ loading' = TRUE
            /\ error' = error
            /\ recommendations' = << >>
            /\ network' = Append(network, RecommendRequest)
    /\ lastEvent' = "handleRecommend"
    /\ UNCHANGED <<activeTab, users, movies, selectedUser, selectedMovie,
                   prediction, topN, usersFetch, moviesFetch>>

\* handleRecommend, from the click to the first await
handleRecommend ==
    /\ activeTab = "recommend"
    /\ ~RecommendDisabled
    /\ IF RecommendInvalid
       THEN /\ error' = Some(RecommendValidationMessage)
            /\ UNCHANGED <<loading, recommendations, network>>
       ELSE /\ Len(network) < MaxInFlight
            /\ loading' = TRUE
            /\ error' = Null
            /\ recommendations' = << >>
            /\ network' = Append(network, RecommendRequest)
    /\ lastEvent' = "handleRecommend"
    /\ UNCHANGED <<activeTab, users, movies, selectedUser, selectedMovie,
                   prediction, topN, usersFetch, moviesFetch>>

\* the message of the exception the try block of handlePredict throws, if
\* any: fetch rejects, response.json() rejects, or data.error is read of null
PredictThrown(r) ==
    IF r.status = "rejected" THEN Some(FetchFailed)
    ELSE IF ~r.parsed THEN Some(JsonSyntaxError)
    ELSE IF ~r.ok /\ r.data = Null THEN Some(NullTypeError)
    ELSE Null

\* the same of handleRecommend, which reads a field of data on either branch
RecommendThrown(r) ==
    IF r.status = "rejected" THEN Some(FetchFailed)
    ELSE IF ~r.parsed THEN Some(JsonSyntaxError)
    ELSE IF r.data = Null THEN Some(NullTypeError)
    ELSE Null

\* the error state with setError(data.error), the fallback text left out
PredictErrorNoFallback(r, old) ==
    IF PredictThrown(r) # Null THEN Some(ConnectError(PredictThrown(r)[1]))
    ELSE IF r.ok THEN old
    ELSE r.data[1].error

\* the error state after the try / catch of handlePredict
PredictError(r, old) ==
    IF PredictThrown(r) # Null THEN Some(ConnectError(PredictThrown(r)[1]))
    ELSE IF r.ok THEN old
    ELSE Some(ErrorOr(r.data[1], PredictFallback))

\* the error state after the try / catch of handleRecommend
RecommendError(r, old) ==
    IF RecommendThrown(r) # Null THEN Some(ConnectError(RecommendThrown(r)[1]))
    ELSE IF r.ok THEN old
    ELSE Some(ErrorOr(r.data[1], RecommendFallback))

\* the prediction state after the try / catch of handlePredict
PredictResult(r, old) ==
    IF PredictThrown(r) = Null /\ r.ok THEN r.data ELSE old

\* (data.recommendations || []).reverse(), the order of the backend lost
RecommendationsReversed(data) ==
    IF data.recommendations # Null
    THEN [i \in 1..Len(data.recommendations[1]) |->
            data.recommendations[1][Len(data.recommendations[1]) + 1 - i]]
    ELSE << >>

\* data.recommendations || []
RecommendationsOrEmpty(data) ==
    IF data.recommendations # Null THEN data.recommendations[1] ELSE << >>

\* the recommendations state after the try / catch of handleRecommend
RecommendResultOf(r, old) ==
    IF RecommendThrown(r) = Null /\ r.ok THEN RecommendationsOrEmpty(r.data[1])
    ELSE old

Remove(seq, i) == SubSeq(seq, 1, i - 1) \o SubSeq(seq, i + 1, Len(seq))

\* handlePredict with setLoading(false) at the end of the try block instead
\* of a finally block
handlePredictAwaitNoFinally ==
    /\ \E i \in 1..Len(network) :
          /\ network[i].kind = "predict"
          /\ network[i].resp.status \in {"rejected", "resolved"}
          /\ prediction' = PredictResult(network[i].resp, prediction)
          /\ error' = PredictError(network[i].resp, error)
          /\ loading' = IF PredictThrown(network[i].resp) = Null THEN FALSE ELSE loading
          /\ network' = Remove(network, i)
    /\ lastEvent' = "handlePredictAwait"
    /\ UNCHANGED <<activeTab, users, movies, selectedUser, selectedMovie,
                   recommendations, topN, usersFetch, moviesFetch>>

\* handlePredict, from the first await to the end of its finally block
handlePredictAwait ==
    /\ \E i \in 1..Len(network) :
          /\ network[i].kind = "predict"
          /\ network[i].resp.status \in {"rejected", "resolved"}
          /\ prediction' = PredictResult(network[i].resp, prediction)
          /\ error' = PredictError(network[i].resp, error)
          /\ network' = Remove(network, i)
    /\ loading' = FALSE
    /\ lastEvent' = "handlePredictAwait"
    /\ UNCHANGED <<activeTab, users, movies, selectedUser, selectedMovie,
                   recommendations, topN, usersFetch, moviesFetch>>

\* handleRecommend with setLoading(false) at the end of the try block
\* instead of a finally block
handleRecommendAwaitNoFinally ==
    /\ \E i \in 1..Len(network) :
          /\ network[i].kind = "recommend"
          /\ network[i].resp.status \in {"rejected", "resolved"}
          /\ recommendations' = RecommendResultOf(network[i].resp, recommendations)
          /\ error' = RecommendError(network[i].resp, error)
          /\ loading' = IF RecommendThrown(network[i].resp) = Null THEN FALSE ELSE loading
          /\ network' = Remove(network, i)
    /\ lastEvent' = "handleRecommendAwait"
    /\ UNCHANGED <<activeTab, users, movies, selectedUser, selectedMovie,
                   prediction, topN, usersFetch, moviesFetch>>

\* handleRecommend, from the first await to the end of its finally block
handleRecommendAwait ==
    /\ \E i \in 1..Len(network) :
          /\ network[i].kind = "recommend"
          /\ network[i].resp.status \in {"rejected", "resolved"}
          /\ recommendations' = RecommendResultOf(network[i].resp, recommendations)
          /\ error' = RecommendError(network[i].resp, error)
          /\ network' = Remove(network, i)
    /\ loading' = FALSE
    /\ lastEvent' = "handleRecommendAwait"
    /\ UNCHANGED <<activeTab, users, movies, selectedUser, selectedMovie,
                   prediction, topN, usersFetch, moviesFetch>>

----------------------------------------------------------------------------
(* What the returned JSX shows *)

\* activeTab === 'predict' ? <predict-section> : <recommend-section>
PredictSectionShown == activeTab = "predict"

\* {prediction && <result-card>} of the predict section
PredictionCardShown == PredictSectionShown /\ prediction # Null

\* a recommendations list rendered outside the tab's conditional
RecommendationsListShownAnyTab == Len(recommendations) > 0

\* {recommendations.length > 0 && <recommendations-list>} of the recommend
\* section
RecommendationsListShown == ~PredictSectionShown /\ Len(recommendations) > 0

\* recommendations.map((rec, index) => <card #{index + 1} rec>): the card of
\* JavaScript index i - 1
RecommendationCards ==
    [i \in 1..Len(recommendations) |->
        [rank |-> (i - 1) + 1, rec |-> recommendations[i]]]

\* the decimal text of a non-negative integer
RECURSIVE NumberText(_)
NumberText(n) ==
    IF n < 10 THEN Digits[n + 1]
    ELSE NumberText(n \div 10) \o Digits[(n % 10) + 1]

\* {prediction.predictedRating} / 5.0: the number's own text (no trailing
\* '.0'), for a rating t in tenths
RatingText(t) ==
    NumberText(t \div 10)
      \o (IF t % 10 = 0 THEN "" ELSE "." \o Digits[(t % 10) + 1])
      \o " / 5.0"

\* Math.floor(prediction.predictedRating), the fraction dropped
StarsFloor(t) == t \div 10

\* Math.round(prediction.predictedRating): floor(x + 0.5), for a rating t in
\* tenths; the number of stars repeat() writes
Stars(t) == (t + 5) \div 10

----------------------------------------------------------------------------

Next ==
    \/ UsersAnswer
    \/ MoviesAnswer
    \/ Answer
    \/ fetchUsers
    \/ fetchMovies
    \/ setActiveTab
    \/ setSelectedUser
    \/ setSelectedMovie
    \/ setTopN
    \/ handlePredict
    \/ handleRecommend
    \/ handlePredictAwait
    \/ handleRecommendAwait

Spec == Init /\ [][Next]_vars

\* the component right after a /predict call of user 1 and movie 10 was
\* answered with a prediction of any rating from 0 to MaxRatingTenths
RenderInit ==
    /\ activeTab = "predict"
    /\ users = UserList
    /\ movies = MovieList
    /\ selectedUser = StringOf(1)
    /\ selectedMovie = StringOf(10)
    /\ \E t \in 0..MaxRatingTenths :
          prediction = Some(PredictionResult(Some(1), t))
    /\ recommendations = << >>
    /\ topN = Some(10)
    /\ loading = FALSE
    /\ error = Null
    /\ network = << >>
    /\ usersFetch = Done
    /\ moviesFetch = Done
    /\ lastEvent = "handlePredictAwait"

\* the callbacks that re-render the component with the prediction kept
RenderNext ==
    \/ setActiveTab
    \/ setSelectedUser
    \/ setSelectedMovie
    \/ setTopN

\* the rendering of a stored prediction, over every rating
RenderSpec == RenderInit /\ [][RenderNext]_vars

\* the event loop runs the continuation of a handler once its fetch has
\* settled; nothing obliges the backend to answer or the user to act
FairSpec ==
    Spec /\ WF_vars(handlePredictAwait) /\ WF_vars(handleRecommendAwait)

----------------------------------------------------------------------------
(* Properties *)

\* the step is a user action: a click or a change of a rendered control
UserAction ==
    lastEvent' \in {"handlePredict", "handleRecommend", "setActiveTab",
                    "setSelectedUser", "setSelectedMovie", "setTopN"}

\* the step is the continuation of call i, which is taken off the network
Settles(i) ==
    /\ i \in 1..Len(network)
    /\ network[i].resp.status \in {"rejected", "resolved"}
    /\ lastEvent' \in {"handlePredictAwait", "handleRecommendAwait"}
    /\ network' = Remove(network, i)

\* C1: whenever handlePredict runs while selectedUser or selectedMovie is
\* empty, no call is added to the network and error becomes
\* 'Please select both user and movie'.
C1_PredictValidation ==
    [][(lastEvent' = "handlePredict" /\ (selectedUser = << >> \/ selectedMovie = << >>))
          => (/\ network' = network
              /\ error' = Some("Please select both user and movie"))]_vars

\* C1 witness: handlePredict has just run with a user but no movie selected,
\* the validation message is shown and nothing is in flight.
C1_Witness ==
    /\ lastEvent = "handlePredict"
    /\ selectedUser # << >>
    /\ selectedMovie = << >>
    /\ error = Some("Please select both user and movie")
    /\ network = << >>

\* C2: in the state right after a success response (HTTP ok, body parsed) of
\* a /predict call is processed, error is null and prediction is the
\* response body.
C2_PredictSuccess ==
    [][\A i \in 1..Len(network) :
          (/\ Settles(i)
           /\ network[i].kind = "predict"
           /\ network[i].resp.status = "resolved"
           /\ network[i].resp.ok
           /\ network[i].resp.parsed)
          => (error' = Null /\ prediction' = network[i].resp.data)]_vars

\* C2 witness: a /predict call has just been settled with a prediction
\* stored, no error, and a selection the user changed meanwhile.
C2_Witness ==
    /\ lastEvent = "handlePredictAwait"
    /\ prediction # Null
    /\ prediction[1].predictedRating = Some(42)
    /\ prediction[1].userId # parseInt(selectedUser)
    /\ error = Null
    /\ ~loading

\* C3: every /recommend call carries a topN that is an integer in 1..50.
C3_TopNClamped ==
    \A i \in 1..Len(network) :
        network[i].kind = "recommend"
        => (network[i].topN # Null /\ network[i].topN[1] \in 1..50)

\* C4: at most one /predict or /recommend call in total is in flight.
C4_OneInFlight == Len(network) <= 1

\* C4 witness: a /predict call is in flight while the recommend tab is shown
\* with a user selected, so only loading keeps its button from sending.
C4_Witness ==
    /\ Len(network) = 1
    /\ network[1].kind = "predict"
    /\ network[1].resp.status = "pending"
    /\ activeTab = "recommend"
    /\ selectedUser # << >>
    /\ loading

\* C5 as stated: once error is set, the next user action of any kind leaves
\* error null or replaced by another message.
C5_AnyActionClears ==
    [][(error # Null /\ UserAction) => (error' = Null \/ error' # error)]_vars

\* C5 amended: once error is set, a submission that is accepted leaves error
\* null, a submission that is rejected leaves error equal to that handler's
\* validation message, and a tab switch, a selection change or a topN edit
\* leaves error as it was.
C5_SubmissionReplaces ==
    [][error # Null =>
          /\ (lastEvent' \in {"handlePredict", "handleRecommend"} /\ Len(network') > Len(network))
                => error' = Null
          /\ (lastEvent' = "handlePredict" /\ Len(network') = Len(network))
                => error' = Some("Please select both user and movie")
          /\ (lastEvent' = "handleRecommend" /\ Len(network') = Len(network))
                => error' = Some("Please select a user")
          /\ lastEvent' \in {"setActiveTab", "setSelectedUser", "setSelectedMovie", "setTopN"}
                => error' = error]_vars

\* C5 witness: the validation error of the predict tab is still shown right
\* after the user switched to the recommend tab.
C5_Witness ==
    /\ lastEvent = "setActiveTab"
    /\ activeTab = "recommend"
    /\ error = Some("Please select both user and movie")
    /\ ~loading

\* C6 as stated: right after any accepted submission loading is true, error
\* is null, prediction is null and recommendations is empty.
C6_AllResultsReset ==
    [][(lastEvent' \in {"handlePredict", "handleRecommend"} /\ Len(network') > Len(network))
          => (/\ loading'
              /\ error' = Null
              /\ prediction' = Null
              /\ recommendations' = << >>)]_vars

\* C6 amended: right after an accepted predict submission loading is true,
\* error is null and prediction is null, with recommendations left as it
\* was; right after an accepted recommend submission loading is true, error
\* is null and recommendations is empty, with prediction left as it was.
C6_OwnResultReset ==
    [][/\ (lastEvent' = "handlePredict" /\ Len(network') > Len(network))
            => (/\ loading'
                /\ error' = Null
                /\ prediction' = Null
                /\ recommendations' = recommendations)
       /\ (lastEvent' = "handleRecommend" /\ Len(network') > Len(network))
            => (/\ loading'
                /\ error' = Null
                /\ recommendations' = << >>
                /\ prediction' = prediction)]_vars

\* C6 witness: a /predict call was just accepted while the list of an
\* earlier /recommend call is still stored.
C6_Witness ==
    /\ lastEvent = "handlePredict"
    /\ Len(network) = 1
    /\ network[1].kind = "predict"
    /\ loading
    /\ error = Null
    /\ prediction = Null
    /\ recommendations # << >>

\* C7: when a /predict call ends in a non-success response or a network
\* failure, the resulting state has a non-null error and a null prediction.
C7_PredictFailure ==
    [][\A i \in 1..Len(network) :
          (/\ Settles(i)
           /\ network[i].kind = "predict"
           /\ \/ network[i].resp.status = "rejected"
              \/ network[i].resp.status = "resolved" /\ ~network[i].resp.ok)
          => (error' # Null /\ prediction' = Null)]_vars

\* C7 witness: a /predict call has just been settled with the fallback
\* message of a non-success response whose body has no error field.
C7_Witness ==
    /\ lastEvent = "handlePredictAwait"
    /\ error = Some("Prediction failed")
    /\ prediction = Null
    /\ ~loading

\* C8 as stated: for a non-success response whose body carries an error
\* message, the error stored is exactly that message, whatever the string.
C8_VerbatimAnyMessage ==
    [][\A i \in 1..Len(network) :
          (/\ Settles(i)
           /\ network[i].resp.status = "resolved"
           /\ ~network[i].resp.ok
           /\ network[i].resp.parsed
           /\ network[i].resp.data # Null
           /\ network[i].resp.data[1].error # Null)
          => error' = network[i].resp.data[1].error]_vars

\* C8 amended: for a non-success response whose body carries a non-empty
\* error message, the error stored is exactly that message.
C8_VerbatimNonEmpty ==
    [][\A i \in 1..Len(network) :
          (/\ Settles(i)
           /\ network[i].resp.status = "resolved"
           /\ ~network[i].resp.ok
           /\ network[i].resp.parsed
           /\ network[i].resp.data # Null
           /\ network[i].resp.data[1].error # Null
           /\ network[i].resp.data[1].error[1] # "")
          => error' = network[i].resp.data[1].error]_vars

\* C8 witness: a /recommend call has just been settled and the error shown
\* is the backend's message.
C8_Witness ==
    /\ lastEvent = "handleRecommendAwait"
    /\ error = Some("user not found")
    /\ ~loading

\* C9: whenever handleRecommend runs while selectedUser is empty, no call is
\* added to the network, error becomes 'Please select a user' and loading
\* stays false.
C9_RecommendValidation ==
    [][(lastEvent' = "handleRecommend" /\ selectedUser = << >>)
          => (/\ network' = network
              /\ error' = Some("Please select a user")
              /\ ~loading
              /\ ~loading')]_vars

\* C9 witness: handleRecommend has just run with no user selected (a movie
\* is selected); the validation message is shown and nothing is in flight.
C9_Witness ==
    /\ lastEvent = "handleRecommend"
    /\ selectedUser = << >>
    /\ selectedMovie # << >>
    /\ error = Some("Please select a user")
    /\ network = << >>
    /\ ~loading

\* C10: a startup fetch that fails (network error or unparsable body) leaves
\* its collection empty and changes neither error, loading, prediction,
\* recommendations nor the other collection and its fetch.
C10_StartupFailureSilent ==
    [][/\ (/\ \/ usersFetch.status = "rejected"
              \/ usersFetch.status = "resolved" /\ ~usersFetch.parsed
           /\ lastEvent' = "fetchUsers")
          => (/\ users' = << >>
              /\ <<error, loading, prediction, recommendations>>'
                    = <<error, loading, prediction, recommendations>>
              /\ <<movies, moviesFetch>>' = <<movies, moviesFetch>>)
       /\ (/\ \/ moviesFetch.status = "rejected"
              \/ moviesFetch.status = "resolved" /\ ~moviesFetch.parsed
           /\ lastEvent' = "fetchMovies")
          => (/\ movies' = << >>
              /\ <<error, loading, prediction, recommendations>>'
                    = <<error, loading, prediction, recommendations>>
              /\ <<users, usersFetch>>' = <<users, usersFetch>>)]_vars

\* C10 witness: fetchUsers has just ended in its catch block with users
\* empty, while the movies fetched before stay listed and a validation error
\* set before stays shown.
C10_Witness ==
    /\ lastEvent = "fetchUsers"
    /\ usersFetch.status = "logged"
    /\ users = << >>
    /\ moviesFetch.status = "done"
    /\ movies # << >>
    /\ error = Some("Please select both user and movie")


\* C11: selectedUser is empty or the string of an element of users,
\* selectedMovie is empty or the string of the movieId of an element of
\* movies, and every call in flight carries a userId of users and, for
\* /predict, a movieId of movies.
C11_SelectionsFromLists ==
    /\ \/ selectedUser = << >>
       \/ \E i \in 1..Len(users) : parseInt(selectedUser) = Some(users[i])
    /\ \/ selectedMovie = << >>
       \/ \E i \in 1..Len(movies) : parseInt(selectedMovie) = Some(movies[i].movieId)
    /\ \A k \in 1..Len(network) :
          /\ \E i \in 1..Len(users) : network[k].userId = Some(users[i])
          /\ network[k].kind = "predict"
                => \E i \in 1..Len(movies) : network[k].movieId = Some(movies[i].movieId)

\* C11 witness: a /predict call for user 2 and movie 10 is in flight after
\* the user changed both selections to other entries of the lists.
C11_Witness ==
    /\ Len(network) = 1
    /\ network[1].kind = "predict"
    /\ network[1].userId = Some(2)
    /\ network[1].movieId = Some(10)
    /\ selectedUser = <<"1">>
    /\ selectedMovie = <<"3">>


\* C12: while a /predict or /recommend call is unanswered loading is true,
\* and while loading is true no further call is submitted; once a call is
\* answered (response or failure), loading eventually becomes false.
C12_StuckOrSettled ==
    /\ [](\A i \in 1..Len(network) : network[i].resp.status = "pending" => loading)
    /\ [][loading => Len(network') <= Len(network)]_vars
    /\ (\E i \in 1..Len(network) : network[i].resp.status \in {"rejected", "resolved"})
          ~> ~loading

\* C12 witness: a /recommend call is unanswered, loading is true, and the
\* user has since emptied the user selection on the predict tab.
C12_Witness ==
    /\ Len(network) = 1
    /\ network[1].kind = "recommend"
    /\ network[1].resp.status = "pending"
    /\ loading
    /\ activeTab = "predict"
    /\ selectedUser = << >>
    /\ lastEvent = "setSelectedUser"


\* C13: the prediction card is shown only when activeTab is 'predict', the
\* recommendations list only when activeTab is 'recommend', and the two are
\* never shown together.
C13_OneResultSetShown ==
    /\ PredictionCardShown => activeTab = "predict"
    /\ RecommendationsListShown => activeTab = "recommend"
    /\ ~(PredictionCardShown /\ RecommendationsListShown)

\* C13 witness: a prediction and a recommendations list are both stored, and
\* the recommend tab shows the list alone.
C13_Witness ==
    /\ prediction # Null
    /\ recommendations # << >>
    /\ activeTab = "recommend"
    /\ RecommendationsListShown
    /\ ~PredictionCardShown

\* C14: after a success response of a /recommend call whose body has a
\* recommendations array, the stored sequence is that array, and the cards
\* rendered from it are as many, card i holding item i with rank i (array
\* index i - 1, plus one).
C14_OrderPreserved ==
    [][\A k \in 1..Len(network) :
          (/\ Settles(k)
           /\ network[k].kind = "recommend"
           /\ network[k].resp.status = "resolved"
           /\ network[k].resp.ok
           /\ network[k].resp.parsed
           /\ network[k].resp.data # Null
           /\ network[k].resp.data[1].recommendations # Null)
          => LET sent == network[k].resp.data[1].recommendations[1]
             IN  /\ recommendations' = sent
                 /\ Len(RecommendationCards') = Len(sent)
                 /\ \A i \in 1..Len(sent) :
                       /\ RecommendationCards'[i].rank = i
                       /\ RecommendationCards'[i].rec = sent[i]]_vars

\* C14 witness: a /recommend call has just been settled and the recommend
\* tab shows movie 10 with rank 1 and movie 3 with rank 2.
C14_Witness ==
    /\ lastEvent = "handleRecommendAwait"
    /\ RecommendationsListShown
    /\ Len(RecommendationCards) = 2
    /\ RecommendationCards[1].rank = 1
    /\ RecommendationCards[1].rec.movieId = 10
    /\ RecommendationCards[2].rank = 2
    /\ RecommendationCards[2].rec.movieId = 3


\* C15: a network failure, or a response body that does not parse as JSON
\* (HTTP status ok or not), on /predict or /recommend is stored as
\* 'Error connecting to server: ' followed by the failure's message.
C15_TransportError ==
    [][\A k \in 1..Len(network) :
          /\ (Settles(k) /\ network[k].resp.status = "rejected")
                => error' = Some("Error connecting to server: Failed to fetch")
          /\ (Settles(k) /\ network[k].resp.status = "resolved" /\ ~network[k].resp.parsed)
                => error' = Some("Error connecting to server: "
                                    \o "Unexpected token < in JSON at position 0")]_vars

\* C15 witness: a /recommend call has just been settled after its body
\* failed to parse, and the prefixed message is shown.
C15_Witness ==
    /\ lastEvent = "handleRecommendAwait"
    /\ error = Some("Error connecting to server: Unexpected token < in JSON at position 0")
    /\ ~loading

\* C16: the end of fetchUsers sets users to what the /users answer alone
\* determines (its userIds, or empty) and leaves movies and the /movies call
\* alone; the end of fetchMovies does the same the other way round; no other
\* step changes users or movies. So the final collections do not depend on
\* the order in which the two fetches complete.
C16_StartupIndependent ==
    [][/\ lastEvent' = "fetchUsers"
            => /\ users' = IF /\ usersFetch.status = "resolved"
                              /\ usersFetch.parsed
                              /\ usersFetch.data # Null
                              /\ usersFetch.data[1].userIds # Null
                           THEN usersFetch.data[1].userIds[1]
                           ELSE << >>
               /\ movies' = movies
               /\ moviesFetch' = moviesFetch
       /\ lastEvent' = "fetchMovies"
            => /\ movies' = IF /\ moviesFetch.status = "resolved"
                               /\ moviesFetch.parsed
                               /\ moviesFetch.data # Null
                               /\ moviesFetch.data[1].movies # Null
                            THEN moviesFetch.data[1].movies[1]
                            ELSE << >>
               /\ users' = users
               /\ usersFetch' = usersFetch
       /\ lastEvent' # "fetchUsers" => users' = users
       /\ lastEvent' # "fetchMovies" => movies' = movies]_vars

\* C16 witness: fetchMovies has just stored its list after fetchUsers had
\* stored its own and the user had selected a user in between.
C16_Witness ==
    /\ lastEvent = "fetchMovies"
    /\ moviesFetch.status = "done"
    /\ Len(movies) = 2
    /\ usersFetch.status = "done"
    /\ Len(users) = MaxUserId
    /\ selectedUser # << >>


\* C17: loading is true exactly when one /predict or /recommend call is
\* outstanding, and no step of a startup fetch (its answer or its
\* continuation) changes loading.
C17_LoadingIffOutstanding ==
    /\ [](loading <=> Len(network) = 1)
    /\ [][(usersFetch' # usersFetch \/ moviesFetch' # moviesFetch)
             => loading' = loading]_vars

\* C17 witness: a /recommend call is outstanding with loading true while
\* the /movies answer has arrived and fetchMovies has yet to continue.
C17_Witness ==
    /\ loading
    /\ Len(network) = 1
    /\ network[1].kind = "recommend"
    /\ moviesFetch.status = "resolved"
    /\ usersFetch.status = "done"

\* C18: whenever loading is true, error is null.
C18_NoErrorWhileLoading == loading => error = Null

\* C18 witness: a /recommend call is in flight, the user has emptied the user
\* selection meanwhile, and no error is shown.
C18_Witness ==
    /\ loading
    /\ error = Null
    /\ Len(network) = 1
    /\ network[1].kind = "recommend"
    /\ activeTab = "recommend"
    /\ selectedUser = << >>
    /\ lastEvent = "setSelectedUser"

\* C19: a validation failure of handlePredict or handleRecommend changes
\* error only: prediction, recommendations, loading, the selections, topN,
\* activeTab, the lists and the calls are left as they were.
C19_ValidationFrame ==
    [][(\/ lastEvent' = "handlePredict" /\ (selectedUser = << >> \/ selectedMovie = << >>)
        \/ lastEvent' = "handleRecommend" /\ selectedUser = << >>)
          => <<prediction, recommendations, loading, selectedUser, selectedMovie,
               topN, activeTab, users, movies, network, usersFetch, moviesFetch>>'
             = <<prediction, recommendations, loading, selectedUser, selectedMovie,
                 topN, activeTab, users, movies, network, usersFetch, moviesFetch>>]_vars

\* C19 witness: handlePredict has just failed its validation and the card of
\* an earlier prediction is shown together with the validation message.
C19_Witness ==
    /\ lastEvent = "handlePredict"
    /\ error = Some("Please select both user and movie")
    /\ selectedMovie = << >>
    /\ PredictionCardShown
    /\ prediction[1].predictedRating = Some(42)


\* C20: for every rating from 0.0 to 5.0 in tenths, the number of stars of
\* the prediction card is the rating rounded to the nearest integer, halves
\* up, and lies between 0 and 5; a rating of 4.2 shows '4.2 / 5.0' and 4
\* stars.
C20_StarsRounded ==
    (PredictionCardShown /\ prediction[1].predictedRating # Null
        /\ prediction[1].predictedRating[1] \in 0..50)
    => LET t == prediction[1].predictedRating[1]
           s == Stars(t)
       IN  /\ s \in 0..5
           /\ 10 * s - 5 <= t
           /\ t < 10 * s + 5
           /\ t = 42 => (s = 4 /\ RatingText(t) = "4.2 / 5.0")

\* C20 witness: the card of a prediction of 4.5 is shown with 5 stars after
\* the user went to the recommend tab and came back.
C20_Witness ==
    /\ PredictionCardShown
    /\ lastEvent = "setActiveTab"
    /\ prediction[1].predictedRating = Some(45)
    /\ Stars(prediction[1].predictedRating[1]) = 5
    /\ RatingText(prediction[1].predictedRating[1]) = "4.5 / 5.0"

====
